---- MODULE Spec2Model ----
(***************************************************************************)
(* Fractal Dream Weaver (src/fractal.py): the rendering pipeline of        *)
(* FractalDreamWeaver and the threads that drive it.                       *)
(*                                                                         *)
(* The module holds these specifications over one set of variables:        *)
(*   Spec          the constructed application: UI events, generation      *)
(*                 threads, the Tk "after" queue;                          *)
(*   SpecRender    one render with the parameter widgets in use;           *)
(*   SpecExport    the animation export thread;                            *)
(*   SpecStartup   the constructor and the fractal menu's command;         *)
(*   SpecEngine    _generate_fractal_map: plane mapper and escape-time     *)
(*                 loop, one iteration per step, on a small pixel grid;    *)
(*   SpecPoints    the same loop at the slider's iteration counts;         *)
(*   SpecColor     _color_fractal on a one-pixel iteration field;          *)
(*   SpecFilter    _apply_filter and _swirl_numpy on one image;            *)
(*   SpecComposite the compositor of generate_fractal on one pixel;        *)
(*   SpecSwirl     the warp geometry of the two Swirl implementations.     *)
(*                                                                         *)
(* float64 values are fixed-point integers: plane coordinates in units of  *)
(* 1/FP, zoom in units of 1/ZS.  Quotients that the code computes in       *)
(* floating point and only compares (iteration / max_iter against a        *)
(* palette stop, r / scale in the swirl exponent) are kept as exact        *)
(* rationals and compared by cross-multiplication.                         *)
(***************************************************************************)
EXTENDS Integers, Sequences, FiniteSets, TLC

VARIABLES
    \* ---- the tk variables and attributes of FractalDreamWeaver (self.*)
    width, height, entry_ok, zoom, center_x, center_y, max_iter, power,
    c_real, c_imag, fractal_type, landscape_type, nightmare_mode, weave_mode,
    filter_type, invert_colors, num_frames, auto_update,
    sketch_img, background_img, current_img, status_text, progress_running,
    debounce_id,
    \* ---- the run-time around them
    scipy_available, \* SCIPY_AVAILABLE, fixed at import
    gen,          \* generation threads: request number -> thread state
    exp,          \* the animation export thread
    timers,       \* ids of the root.after(100, ...) timers not yet fired
    after_queue,  \* callbacks handed to root.after(0, ...), in order
    dialogs,      \* message boxes shown
    \* ---- locals of _generate_fractal_map (SpecEngine)
    eng,
    \* ---- locals of _color_fractal (SpecColor)
    col,
    \* ---- locals of the Swirl branch of _apply_filter and of _swirl_numpy
    sw,
    \* ---- one pixel of the compositor (SpecComposite)
    cmp,
    \* ---- the filter stage on one image (SpecFilter)
    flt,
    \* ---- a run of the constructor or of the fractal menu (SpecStartup)
    boot

paramVars == <<width, height, entry_ok, zoom, center_x, center_y, max_iter,
               power, c_real, c_imag, fractal_type, landscape_type,
               nightmare_mode, weave_mode, filter_type, invert_colors,
               num_frames, auto_update, scipy_available>>
layerVars == <<sketch_img, background_img>>
uiVars    == <<status_text, progress_running, after_queue, dialogs,
               debounce_id, timers>>
appVars   == <<paramVars, layerVars, uiVars, current_img, gen, exp>>
unitVars  == <<cmp, flt, boot>>
vars      == <<appVars, eng, col, sw, unitVars>>

(***************************************************************************)
(* Bounds of the model.                                                    *)
(***************************************************************************)
MaxDim      == 3   \* SpecEngine: largest grid side
MaxIterEng  == 3   \* SpecEngine, SpecColor: largest max_iter
MaxPower    == 3   \* SpecEngine: largest (integer) power

(***************************************************************************)
(* Fixed-point arithmetic.                                                 *)
(***************************************************************************)
FP == 100   \* plane coordinates are multiples of 1/FP
ZS == 100   \* zoom is a multiple of 1/ZS

Abs(a) == IF a < 0 THEN -a ELSE a
Max2(a, b) == IF a >= b THEN a ELSE b
Min2(a, b) == IF a <= b THEN a ELSE b

\* a / b rounded toward zero, as float -> int conversions round
DivT(a, b) == IF (a < 0) = (b < 0) THEN Abs(a) \div Abs(b)
              ELSE -(Abs(a) \div Abs(b))

\* complex numbers are pairs <<re, im>> in units of 1/FP
CAdd(a, b) == <<a[1] + b[1], a[2] + b[2]>>
CMul(a, b) == <<DivT(a[1] * b[1] - a[2] * b[2], FP),
                DivT(a[1] * b[2] + a[2] * b[1], FP)>>
CConj(a)   == <<a[1], -a[2]>>
CAbsParts(a) == <<Abs(a[1]), Abs(a[2])>>

RECURSIVE CPow(_, _)
CPow(a, n) == IF n = 0 THEN <<FP, 0>> ELSE CMul(a, CPow(a, n - 1))

(***************************************************************************)
(* _generate_fractal_map (lines 610-657).                                  *)
(***************************************************************************)
FractalTypes == {"Mandelbrot", "Julia", "Burning Ship", "Tricorn"}

EscapeRadius == 2   \* np.abs(z) > 2
CapValue     == 2   \* z[diverged] = 2

\* np.linspace(a, b, n)[k]
Linspace(a, b, n, k) == IF n = 1 THEN a ELSE a + DivT(k * (b - a), n - 1)

\* x_range = 5.0 / zoom ; y_range = x_range * aspect_ratio
XRange(zm) == DivT(5 * FP * ZS, zm)
AspectNum(w, h) == IF w > 0 /\ h > 0 THEN h ELSE 1
AspectDen(w, h) == IF w > 0 /\ h > 0 THEN w ELSE 1
YRange(zm, w, h) == DivT(XRange(zm) * AspectNum(w, h), AspectDen(w, h))

XMin(cx, zm) == cx - DivT(XRange(zm), 2)
XMax(cx, zm) == cx + DivT(XRange(zm), 2)
YMin(cy, zm, w, h) == cy - DivT(YRange(zm, w, h), 2)
YMax(cy, zm, w, h) == cy + DivT(YRange(zm, w, h), 2)

\* x = np.linspace(x_min, x_max, width) ; y = np.linspace(y_min, y_max, height)
\* xx, yy = np.meshgrid(x, y): pixel <<py, px>> has coordinate <<x[px], y[py]>>
PlaneX(px, w, cx, zm) == Linspace(XMin(cx, zm), XMax(cx, zm), w, px)
PlaneY(py, w, h, cy, zm) ==
    Linspace(YMin(cy, zm, w, h), YMax(cy, zm, w, h), h, py)

Pixels(w, h) == (0 .. h - 1) \X (0 .. w - 1)     \* <<py, px>>, row-major

\* np.abs(zv) > rad
AbsGreater(zv, rad) ==
    \/ Abs(zv[1]) > rad * FP
    \/ Abs(zv[2]) > rad * FP
    \/ zv[1] * zv[1] + zv[2] * zv[2] > rad * rad * FP * FP

\* the family's pre-transform, then z = z**power + c
PreTransform(ft, zv) ==
    CASE ft = "Burning Ship" -> CAbsParts(zv)
      [] ft = "Tricorn"      -> CConj(zv)
      [] OTHER               -> zv
IterateZNoC(ft, pw, zv, cv) == CPow(PreTransform(ft, zv), pw)
IterateZ(ft, pw, zv, cv) == CAdd(CPow(PreTransform(ft, zv), pw), cv)

\* iter_map[diverged & mask] = i: the pixels whose entry is written
RecordsUnmasked(div, m) == div
Records(div, m) == div /\ m

\* z[diverged] = 2  # Cap to prevent overflow
Uncapped(zv) == zv
Capped(zv) == <<CapValue * FP, 0>>

\* iter_map = np.full((height, width), max_iter)
FillValueNegative(mi) == -1
FillValue(mi) == mi

EngIdle == [pc |-> "idle"]

\* the state of the locals on entry to the loop
EngineEntered ==
    LET w == width
        h == height
        P == Pixels(w, h)
        coord == [p \in P |-> <<PlaneX(p[2], w, center_x, zoom),
                                PlaneY(p[1], w, h, center_y, zoom)>>]
    IN  IF fractal_type \in {"Mandelbrot", "Burning Ship", "Tricorn"}
        THEN [pc |-> "loop", w |-> w, h |-> h, max_iter |-> max_iter,
              power |-> power, fractal_type |-> fractal_type,
              yy |-> [py \in 0 .. h - 1 |-> PlaneY(py, w, h, center_y, zoom)],
              y_min |-> YMin(center_y, zoom, w, h),
              y_max |-> YMax(center_y, zoom, w, h),
              c |-> coord, z |-> [p \in P |-> <<0, 0>>],
              iter_map |-> [p \in P |-> FillValue(max_iter)],
              mask |-> [p \in P |-> TRUE], i |-> 0]
        ELSE IF fractal_type = "Julia"
        THEN [pc |-> "loop", w |-> w, h |-> h, max_iter |-> max_iter,
              power |-> power, fractal_type |-> fractal_type,
              yy |-> [py \in 0 .. h - 1 |-> PlaneY(py, w, h, center_y, zoom)],
              y_min |-> YMin(center_y, zoom, w, h),
              y_max |-> YMax(center_y, zoom, w, h),
              c |-> [p \in P |-> <<c_real, c_imag>>], z |-> coord,
              iter_map |-> [p \in P |-> FillValue(max_iter)],
              mask |-> [p \in P |-> TRUE], i |-> 0]
        ELSE [pc |-> "error"]       \* raise ValueError("Invalid fractal type")

\* one pass of the body of "for i in range(max_iter)"
EngineLoopBody(e) ==
    LET P  == DOMAIN e.z
        zn == [p \in P |-> IterateZ(e.fractal_type, e.power, e.z[p], e.c[p])]
        diverged == [p \in P |-> AbsGreater(zn[p], EscapeRadius)]
    IN  [e EXCEPT
          !.iter_map = [p \in P |-> IF Records(diverged[p], e.mask[p])
                                    THEN e.i ELSE e.iter_map[p]],
          !.mask = [p \in P |-> IF diverged[p] THEN FALSE ELSE e.mask[p]],
          !.z = [p \in P |-> IF diverged[p] THEN Capped(zn[p]) ELSE zn[p]],
          !.i = e.i + 1]

EngineEnter ==
    /\ eng.pc = "idle"
    /\ eng' = EngineEntered
    /\ UNCHANGED <<appVars, col, sw, unitVars>>

EngineIterate ==
    /\ eng.pc = "loop"
    /\ eng.i < eng.max_iter
    /\ eng' = EngineLoopBody(eng)
    /\ UNCHANGED <<appVars, col, sw, unitVars>>

EngineReturn ==
    /\ eng.pc = "loop"
    /\ eng.i >= eng.max_iter
    /\ eng' = [eng EXCEPT !.pc = "done"]
    /\ UNCHANGED <<appVars, col, sw, unitVars>>

(***************************************************************************)
(* _color_fractal (lines 659-759) on a one-pixel iteration field.          *)
(***************************************************************************)
Landscapes == {"Forest", "City", "Dream", "Ocean", "Desert", "Space",
               "Rainbow", "Fire", "Ice", "Inferno"}

\* levels, in hundredths
Levels(l) ==
    CASE l = "Forest"  -> <<0, 30, 60, 100>>
      [] l = "City"    -> <<0, 40, 70, 100>>
      [] l = "Dream"   -> <<0, 25, 50, 75, 100>>
      [] l = "Ocean"   -> <<0, 30, 60, 100>>
      [] l = "Desert"  -> <<0, 30, 60, 100>>
      [] l = "Space"   -> <<0, 30, 60, 100>>
      [] l = "Rainbow" -> <<0, 16, 33, 50, 66, 83, 100>>
      [] l = "Fire"    -> <<0, 40, 80, 100>>
      [] l = "Ice"     -> <<0, 40, 80, 100>>
      [] l = "Inferno" -> <<0, 25, 50, 75, 100>>

Cmaps(l) ==
    CASE l = "Forest"  -> << <<0, 0, 128>>, <<34, 139, 34>>, <<139, 69, 19>>,
                             <<255, 255, 255>> >>
      [] l = "City"    -> << <<50, 50, 50>>, <<100, 100, 100>>, <<200, 0, 0>>,
                             <<255, 255, 255>> >>
      [] l = "Dream"   -> << <<255, 0, 0>>, <<255, 165, 0>>, <<255, 255, 0>>,
                             <<0, 128, 0>>, <<0, 0, 255>> >>
      [] l = "Ocean"   -> << <<0, 0, 50>>, <<0, 100, 200>>, <<100, 200, 255>>,
                             <<255, 255, 255>> >>
      [] l = "Desert"  -> << <<200, 100, 0>>, <<255, 200, 100>>,
                             <<255, 150, 50>>, <<255, 255, 200>> >>
      [] l = "Space"   -> << <<0, 0, 0>>, <<50, 0, 100>>, <<100, 0, 200>>,
                             <<200, 100, 255>> >>
      [] l = "Rainbow" -> << <<255, 0, 0>>, <<255, 165, 0>>, <<255, 255, 0>>,
                             <<0, 128, 0>>, <<0, 0, 255>>, <<75, 0, 130>>,
                             <<148, 0, 211>> >>
      [] l = "Fire"    -> << <<50, 0, 0>>, <<200, 0, 0>>, <<255, 140, 0>>,
                             <<255, 255, 200>> >>
      [] l = "Ice"     -> << <<0, 0, 100>>, <<0, 100, 200>>, <<150, 200, 255>>,
                             <<255, 255, 255>> >>
      [] l = "Inferno" -> << <<0, 0, 4>>, <<87, 15, 109>>, <<187, 55, 84>>,
                             <<249, 142, 50>>, <<255, 255, 85>> >>

\* normalized = iter_map / max_iter (line 661) is the rational it / mi; with
\* mi = 0 numpy divides by zero and gives nan (0 / 0) or inf (it / 0): nan
\* compares false with everything, inf is >= every level and < none.
Normalized(it, mi) ==
    IF mi # 0 THEN "finite" ELSE IF it = 0 THEN "nan" ELSE "inf"

\* mask = (normalized >= levels[i]) & (normalized < levels[i + 1])
InBracket(it, mi, lo, hi) ==
    /\ mi > 0
    /\ it * 100 >= lo * mi
    /\ it * 100 < hi * mi

\* cmaps[i] + frac * (cmaps[i + 1] - cmaps[i]), stored into a uint8 array
\* frac = (normalized - levels[i]) / (levels[i + 1] - levels[i])
Interpolate(it, mi, lo, hi, c0, c1) ==
    [k \in 1 .. 3 |->
        c0[k] + (((it * 100 - lo * mi) * (c1[k] - c0[k])) \div ((hi - lo) * mi))]

\* for i in range(len(levels) - 1): colors[mask] = ...  (from bracket i on)
RECURSIVE ColorBrackets(_, _, _, _, _)
ColorBrackets(l, it, mi, i, colors) ==
    IF i > Len(Levels(l)) - 1 THEN colors
    ELSE ColorBrackets(l, it, mi, i + 1,
            IF InBracket(it, mi, Levels(l)[i], Levels(l)[i + 1])
            THEN Interpolate(it, mi, Levels(l)[i], Levels(l)[i + 1],
                             Cmaps(l)[i], Cmaps(l)[i + 1])
            ELSE colors)

\* colors = np.zeros(...), then the bracket loop
PaletteColor(l, it, mi) == ColorBrackets(l, it, mi, 1, <<0, 0, 0>>)

Clip(v, lo, hi) == Max2(lo, Min2(v, hi))

\* np.random.randint(lo, hi): the ends and the middle of [lo, hi)
NoiseR == {-20, 0, 19}
NoiseG == {-15, 0, 14}
NoiseB == {-30, 0, 29}

\* nightmare mode: tinted noise, clipped; on a one-pixel image the jitter
\* resamples index clip(..., 0, 0) = 0, the pixel itself
Nightmare(colors, nr, ng, nb) ==
    <<Clip(colors[1] + nr, 0, 255), Clip(colors[2] + ng, 0, 255),
      Clip(colors[3] + nb, 0, 255)>>

ColorFractal ==
    /\ col.pc = "idle"
    /\ \E nr \in NoiseR, ng \in NoiseG, nb \in NoiseB :
         LET base == PaletteColor(landscape_type, col.iter_map, max_iter)
         IN  col' = [col EXCEPT
                       !.pc = "done",
                       !.max_iter = max_iter,
                       !.normalized = Normalized(col.iter_map, max_iter),
                       !.colors = IF nightmare_mode
                                  THEN Nightmare(base, nr, ng, nb) ELSE base]
    /\ UNCHANGED <<appVars, eng, sw, unitVars>>

(***************************************************************************)
(* The warp geometry of the Swirl filter: the SciPy branch of              *)
(* _apply_filter (lines 771-783) and _swirl_numpy (lines 814-824).         *)
(*                                                                         *)
(* The angle offset strength * exp(-r / scale) is kept exactly, as the     *)
(* strength and the square of the exponent r / scale, a rational:          *)
(*   r^2 = ((2x - w)^2 + (2y - h)^2) / 4,  scale = side / 5,               *)
(*   (r / scale)^2 = 25 * ((2x - w)^2 + (2y - h)^2) / (4 * side^2).        *)
(* exp is injective and ln 2 is no quotient of such numbers, so two        *)
(* offsets are equal exactly when the strengths and the exponents are.     *)
(***************************************************************************)
ScipyStrength(nm) == IF nm THEN 2 ELSE 1    \* 2.0 if nightmare_mode else 1.0
NumpyStrength(nm) == 2                      \* strength = 2.0

\* 4 * r^2 for pixel (x, y): cx, cy = w / 2, h / 2
R4(w, h, x, y) == (2 * x - w) * (2 * x - w) + (2 * y - h) * (2 * y - h)

\* theta + strength * np.exp(-r / (w / 5))
ScipyOffset(w, h, x, y, nm) ==
    [strength |-> ScipyStrength(nm), num |-> 25 * R4(w, h, x, y),
     den |-> 4 * w * w]

\* swirl_angle = strength * np.exp(-r / (max(w, h) / 5.0))
NumpyOffset(w, h, x, y, nm) ==
    [strength |-> NumpyStrength(nm), num |-> 25 * R4(w, h, x, y),
     den |-> 4 * Max2(w, h) * Max2(w, h)]

OffsetEq(a, b) == a.strength = b.strength /\ a.num * b.den = b.num * a.den

\* _apply_filter, filter "Swirl", SCIPY_AVAILABLE
SwirlScipy ==
    /\ ~sw.hq_done
    /\ sw' = [sw EXCEPT !.hq_done = TRUE,
                        !.hq = ScipyOffset(sw.w, sw.h, sw.x, sw.y,
                                           nightmare_mode)]
    /\ UNCHANGED <<appVars, eng, col, unitVars>>

\* _swirl_numpy, the fallback
SwirlNumpy ==
    /\ ~sw.fb_done
    /\ sw' = [sw EXCEPT !.fb_done = TRUE,
                        !.fb = NumpyOffset(sw.w, sw.h, sw.x, sw.y,
                                           nightmare_mode)]
    /\ UNCHANGED <<appVars, eng, col, unitVars>>

(***************************************************************************)
(* The compositor of generate_fractal (lines 440-457) on one pixel.        *)
(*                                                                         *)
(* A pixel is <<r, g, b, a>>.  Image.paste(im, box) copies im's pixels;    *)
(* Image.paste(im, box, mask) with an RGBA mask mixes, band by band and    *)
(* alpha included, the pixel under it with im's pixel in the proportion    *)
(* of the mask's alpha, in 8-bit arithmetic rounded to the nearest.        *)
(***************************************************************************)
\* (v + 128 + ((v + 128) >> 8)) >> 8: v / 255 rounded to the nearest
Div255(v) == ((v + 128) + ((v + 128) \div 256)) \div 256

\* one band of dst under the mask value a
BlendInverted(a, dst, src) == Div255(dst * a + src * (255 - a))
Blend(a, dst, src) == Div255(dst * (255 - a) + src * a)

\* final_img.paste(src, (0, 0)): line 448
Paste(dst, src) == src

\* final_img.paste(src, (0, 0), src): lines 453, 457
PasteMasked(dst, src) == [k \in 1 .. 4 |-> Blend(src[4], dst[k], src[k])]

\* (a conversion that leaves the fractal translucent)
ConvertTranslucent(rgb) == <<rgb[1], rgb[2], rgb[3], 128>>
\* img.convert('RGBA') of the RGB fractal raster
ConvertRGBA(rgb) == <<rgb[1], rgb[2], rgb[3], 255>>

\* Image.new('RGBA', img.size): transparent black
NewRGBA == <<0, 0, 0, 0>>

NoPixel == <<0, 0, 0, -1>>      \* no layer: background_img is not set

\* lines 442-457 for one pixel: bg (or NoPixel), the fractal's RGB, the
\* sketch, the weave flag
CompositePixel(bg, fr, sk, weave) ==
    LET p0 == NewRGBA
        p1 == IF bg # NoPixel THEN Paste(p0, bg) ELSE p0
        p2 == PasteMasked(p1, ConvertRGBA(fr))
    IN  IF weave THEN PasteMasked(p2, sk) ELSE p2

Composite ==
    /\ cmp.pc = "idle"
    /\ cmp' = [cmp EXCEPT !.pc = "done",
                          !.out = CompositePixel(cmp.bg, cmp.fractal,
                                                 cmp.sketch, weave_mode)]
    /\ UNCHANGED <<appVars, eng, col, sw, flt, boot>>

(***************************************************************************)
(* The application: FractalDreamWeaver's attributes, its generation        *)
(* threads and the Tk event loop.                                          *)
(*                                                                         *)
(* An image is the record of what went into it: the object's identity,     *)
(* its size, and the values the stages read when they produced it.         *)
(***************************************************************************)
MaxRequests == 2   \* generation threads started in one run

Requests == 1 .. MaxRequests

NoId == <<"none", 0>>

\* a layer (sketch_img, background_img); id = NoId: the attribute is not set.
\* corrupt: processing the image raises (Image.open reads the header only).
NoLayer == [id |-> NoId, w |-> 0, h |-> 0, corrupt |-> FALSE]

\* layer.resize((w, h), LANCZOS): a new object of the new size
Resized(layer, w, h, id) == [layer EXCEPT !.id = id, !.w = w, !.h = h]

NoImage == [id |-> NoId, req |-> 0, w |-> 0, h |-> 0, zoom |-> 0,
            mi_map |-> 0, mi_col |-> 0, fractal_type |-> "",
            landscape |-> "", nm_col |-> FALSE, filter |-> "",
            nm_filter |-> FALSE, inverted |-> FALSE, pil |-> FALSE,
            bg |-> NoId, bg_failed |-> FALSE, sketch |-> NoId]

NoThread == [pc |-> "none", w |-> 0, h |-> 0, img |-> NoImage, log |-> {},
             raised |-> FALSE]

Started == {r \in Requests : gen[r].pc # "none"}
NextRequest == Cardinality(Started) + 1

\* thread_generate (lines 391-396)
ThreadGenerate == [gen EXCEPT ![NextRequest].pc = "begin"]

\* the "Generate" button (line 222)
ClickGenerate ==
    /\ NextRequest <= MaxRequests
    /\ gen' = ThreadGenerate
    /\ UNCHANGED <<paramVars, layerVars, uiVars, current_img, exp>>
    /\ UNCHANGED <<eng, col, sw, unitVars>>

\* the Width and Height entries (lines 169-170): the text typed
SizeChoices == {<<800, 600>>, <<400, 300>>, <<0, 600>>, <<800, -1>>}

EditSize ==
    /\ \E sz \in SizeChoices, ok \in BOOLEAN :
         /\ <<width, height, entry_ok>> # <<sz[1], sz[2], ok>>
         /\ width' = sz[1]
         /\ height' = sz[2]
         /\ entry_ok' = ok
    /\ UNCHANGED <<zoom, center_x, center_y, max_iter, power, c_real, c_imag,
                   fractal_type, landscape_type, nightmare_mode, weave_mode,
                   filter_type, invert_colors, num_frames, auto_update,
                   scipy_available>>
    /\ UNCHANGED <<layerVars, uiVars, current_img, gen, exp, eng, col, sw, unitVars>>

\* trigger_generation (lines 384-389): the new timer's id follows the last
MaxTimers == 2   \* timers created in one run

\* (a trigger_generation that leaves the earlier timer scheduled)
TimersNoCancel == timers \cup {debounce_id + 1}
TimersAfterTrigger == (timers \ {debounce_id}) \cup {debounce_id + 1}

\* load_background (lines 903-911), a file chosen and opened
BgSizes == {<<800, 600>>, <<1024, 768>>}

LoadBackground ==
    /\ background_img.id = NoId
    /\ debounce_id < MaxTimers
    /\ \E sz \in BgSizes, bad \in BOOLEAN :
         background_img' = [id |-> <<"file", 1>>, w |-> sz[1], h |-> sz[2],
                            corrupt |-> bad]
    /\ timers' = TimersAfterTrigger
    /\ debounce_id' = debounce_id + 1
    /\ UNCHANGED <<paramVars, sketch_img, status_text, progress_running,
                   after_queue, dialogs, current_img, gen, exp>>
    /\ UNCHANGED <<eng, col, sw, unitVars>>

\* clear_sketch (lines 897-901): the entries are read (a text that is no
\* number or a negative size raises before anything is assigned), a new
\* sketch is made, trigger_generation is called
ClearSketch ==
    /\ entry_ok /\ width >= 0 /\ height >= 0
    /\ debounce_id < MaxTimers
    /\ sketch_img' = [id |-> <<"cleared", debounce_id + 1>>, w |-> width,
                      h |-> height, corrupt |-> FALSE]
    /\ timers' = TimersAfterTrigger
    /\ debounce_id' = debounce_id + 1
    /\ UNCHANGED <<paramVars, background_img, status_text, progress_running,
                   after_queue, dialogs, current_img, gen, exp>>
    /\ UNCHANGED <<eng, col, sw, unitVars>>

\* the "Auto Update on Change" checkbox (line 306)
ToggleAutoUpdate ==
    /\ auto_update' = ~auto_update
    /\ UNCHANGED <<width, height, entry_ok, zoom, center_x, center_y,
                   max_iter, power, c_real, c_imag, fractal_type,
                   landscape_type, nightmare_mode, weave_mode, filter_type,
                   invert_colors, num_frames, scipy_available>>
    /\ UNCHANGED <<layerVars, uiVars, current_img, gen, exp, eng, col, sw,
                   unitVars>>

\* a root.after(100, self.thread_generate) timer fires
TimerFire ==
    /\ NextRequest <= MaxRequests
    /\ \E t \in timers : timers' = timers \ {t}
    /\ gen' = ThreadGenerate
    /\ UNCHANGED <<paramVars, layerVars, status_text, progress_running,
                   after_queue, dialogs, debounce_id, current_img, exp>>
    /\ UNCHANGED <<eng, col, sw, unitVars>>

(***************************************************************************)
(* generate_fractal (lines 398-477), one step per stage.                   *)
(***************************************************************************)
\* (a generate_fractal whose finally block schedules nothing)
FinallyNothing(q) == q
\* the finally block (lines 468-477): root.after(0, finish_ui)
Finally(q) == Append(q, "finish_ui")

\* lines 400-420: start_ui is scheduled, the dimensions are read
GenBegin(r) ==
    /\ gen[r].pc = "begin"
    /\ IF ~entry_ok
       THEN \* tk.TclError: logged, the status set, return (then finally)
            /\ gen' = [gen EXCEPT ![r].pc = "done",
                                  ![r].log = {"error", "info"}]
            /\ status_text' = "Error: Width and Height must be numbers."
            /\ after_queue' = Finally(Append(after_queue, "start_ui"))
       ELSE IF width <= 0 \/ height <= 0
       THEN \* logger.warning(...), return (then finally)
            /\ gen' = [gen EXCEPT ![r].pc = "done", ![r].w = width,
                                  ![r].h = height,
                                  ![r].log = {"warning", "info"}]
            /\ status_text' = status_text
            /\ after_queue' = Finally(Append(after_queue, "start_ui"))
       ELSE /\ gen' = [gen EXCEPT ![r].pc = "layers", ![r].w = width,
                                  ![r].h = height, ![r].log = {"info"}]
            /\ status_text' = status_text
            /\ after_queue' = Append(after_queue, "start_ui")
    /\ UNCHANGED <<paramVars, layerVars, progress_running, dialogs,
                   debounce_id, timers, current_img, exp, eng, col, sw, unitVars>>

\* lines 421-426: "Resize sketch and background if resolution changed"
GenLayers(r) ==
    LET w == gen[r].w
        h == gen[r].h
        bgDiffers == /\ background_img.id # NoId
                     /\ <<background_img.w, background_img.h>> # <<w, h>>
    IN  /\ gen[r].pc = "layers"
        /\ sketch_img' = IF <<sketch_img.w, sketch_img.h>> # <<w, h>>
                         THEN Resized(sketch_img, w, h, <<"sketch", r>>)
                         ELSE sketch_img
        /\ IF bgDiffers /\ background_img.corrupt
           THEN \* resize raises: except (465-467), finally (468-477)
                /\ background_img' = background_img
                /\ gen' = [gen EXCEPT ![r].pc = "done", ![r].raised = TRUE,
                                      ![r].log = @ \cup {"error"}]
                /\ after_queue' = Finally(Append(after_queue, "showerror"))
           ELSE /\ background_img' = IF bgDiffers
                                     THEN Resized(background_img, w, h,
                                                  <<"background", r>>)
                                     ELSE background_img
                /\ gen' = [gen EXCEPT ![r].pc = "map"]
                /\ after_queue' = after_queue
        /\ UNCHANGED <<paramVars, status_text, progress_running, dialogs,
                       debounce_id, timers, current_img, exp, eng, col, sw, unitVars>>

\* line 429: iter_map = self._generate_fractal_map(w, h)
GenMap(r) ==
    /\ gen[r].pc = "map"
    /\ gen' = [gen EXCEPT ![r].pc = "color",
                          ![r].img = [@ EXCEPT !.w = gen[r].w, !.h = gen[r].h,
                                               !.zoom = zoom,
                                               !.mi_map = max_iter,
                                               !.fractal_type = fractal_type]]
    /\ UNCHANGED <<paramVars, layerVars, uiVars, current_img, exp>>
    /\ UNCHANGED <<eng, col, sw, unitVars>>

\* lines 430-431: colors = self._color_fractal(iter_map); Image.fromarray
GenColor(r) ==
    /\ gen[r].pc = "color"
    /\ gen' = [gen EXCEPT ![r].pc = "filter",
                          ![r].img = [@ EXCEPT !.mi_col = max_iter,
                                               !.landscape = landscape_type,
                                               !.nm_col = nightmare_mode,
                                               !.pil = TRUE]]
    /\ UNCHANGED <<paramVars, layerVars, uiVars, current_img, exp>>
    /\ UNCHANGED <<eng, col, sw, unitVars>>

\* lines 434-438: img = self._apply_filter(img), then the inversion
GenFilter(r) ==
    /\ gen[r].pc = "filter"
    /\ gen' = [gen EXCEPT ![r].pc = "composite",
                          ![r].img = [@ EXCEPT !.filter = filter_type,
                                               !.nm_filter = nightmare_mode,
                                               !.inverted = invert_colors]]
    /\ UNCHANGED <<paramVars, layerVars, uiVars, current_img, exp>>
    /\ UNCHANGED <<eng, col, sw, unitVars>>

\* the background's part of the compositor (lines 445-450): an exception of
\* the resize or the paste is logged and the render goes on
BackgroundFails == background_img.id # NoId /\ background_img.corrupt

\* lines 440-463, then finally (468-477)
GenComposite(r) ==
    /\ gen[r].pc = "composite"
    /\ current_img' =
         [gen[r].img EXCEPT
            !.id = <<"final", r>>, !.req = r,
            !.bg = IF background_img.id # NoId /\ ~BackgroundFails
                   THEN background_img.id ELSE NoId,
            !.bg_failed = BackgroundFails,
            !.sketch = IF weave_mode THEN sketch_img.id ELSE NoId]
    /\ gen' = [gen EXCEPT ![r].pc = "done", ![r].img = current_img',
                          ![r].log = IF BackgroundFails THEN @ \cup {"error"}
                                     ELSE @]
    /\ after_queue' = Finally(after_queue)
    /\ UNCHANGED <<paramVars, layerVars, status_text, progress_running,
                   dialogs, debounce_id, timers, exp, eng, col, sw, unitVars>>

\* the Tk main loop runs the next root.after(0, ...) callback:
\* start_ui (400-405), finish_ui (472-476), the error box (467)
MainLoop ==
    /\ after_queue # <<>>
    /\ after_queue' = Tail(after_queue)
    /\ CASE Head(after_queue) = "start_ui" ->
              /\ status_text' = "Generating..."
              /\ progress_running' = TRUE
              /\ dialogs' = dialogs
         [] Head(after_queue) = "finish_ui" ->
              /\ status_text' = "Ready"
              /\ progress_running' = FALSE
              /\ dialogs' = dialogs
         [] OTHER ->
              /\ dialogs' = dialogs + 1
              /\ UNCHANGED <<status_text, progress_running>>
    /\ UNCHANGED <<paramVars, layerVars, debounce_id, timers, current_img,
                   gen, exp, eng, col, sw, unitVars>>

(***************************************************************************)
(* export_animation (lines 986-1055) and the UI events around it.          *)
(***************************************************************************)
MaxFrames == 3   \* largest frame count typed into the Frames entry

FilterChoices == {"None", "Blur", "Edge", "Emboss", "Sharpen", "Contour",
                  "Swirl"}

MAX_PIXELS == 2000000          \* _swirl_numpy
LargeAnimation == 30000000     \* total_pixels > 30_000_000

\* param_changed (lines 379-382) as the command of a menu or a checkbox
ParamChanged ==
    IF auto_update /\ debounce_id < MaxTimers
    THEN /\ timers' = TimersAfterTrigger
         /\ debounce_id' = debounce_id + 1
    ELSE UNCHANGED <<timers, debounce_id>>

\* the filter menu (line 196)
SetFilter ==
    /\ \E f \in FilterChoices : f # filter_type /\ filter_type' = f
    /\ ParamChanged
    /\ UNCHANGED <<width, height, entry_ok, zoom, center_x, center_y,
                   max_iter, power, c_real, c_imag, fractal_type,
                   landscape_type, nightmare_mode, weave_mode, invert_colors,
                   num_frames, auto_update, scipy_available>>
    /\ UNCHANGED <<layerVars, status_text, progress_running, after_queue,
                   dialogs, current_img, gen, exp, eng, col, sw, unitVars>>

\* the Max Iterations slider (line 174, update_from_slider lines 331-337)
MaxIterChoices == {50, 256}

SetMaxIter ==
    /\ \E n \in MaxIterChoices : n # max_iter /\ max_iter' = n
    /\ ParamChanged
    /\ UNCHANGED <<width, height, entry_ok, zoom, center_x, center_y, power,
                   c_real, c_imag, fractal_type, landscape_type,
                   nightmare_mode, weave_mode, filter_type, invert_colors,
                   num_frames, auto_update, scipy_available>>
    /\ UNCHANGED <<layerVars, status_text, progress_running, after_queue,
                   dialogs, current_img, gen, exp, eng, col, sw, unitVars>>

\* the Nightmare Mode checkbox (line 190)
ToggleNightmare ==
    /\ nightmare_mode' = ~nightmare_mode
    /\ ParamChanged
    /\ UNCHANGED <<width, height, entry_ok, zoom, center_x, center_y,
                   max_iter, power, c_real, c_imag, fractal_type,
                   landscape_type, weave_mode, filter_type, invert_colors,
                   num_frames, auto_update, scipy_available>>
    /\ UNCHANGED <<layerVars, status_text, progress_running, after_queue,
                   dialogs, current_img, gen, exp, eng, col, sw, unitVars>>

\* the Frames entry (line 208)
SetNumFrames ==
    /\ \E n \in 0 .. MaxFrames : n # num_frames /\ num_frames' = n
    /\ UNCHANGED <<width, height, entry_ok, zoom, center_x, center_y,
                   max_iter, power, c_real, c_imag, fractal_type,
                   landscape_type, nightmare_mode, weave_mode, filter_type,
                   invert_colors, auto_update, scipy_available>>
    /\ UNCHANGED <<layerVars, uiVars, current_img, gen, exp, eng, col, sw, unitVars>>

ExpIdle == [pc |-> "idle", num_frames |-> 0, w |-> 0, h |-> 0,
            initial_zoom |-> 0, i |-> 0, frames |-> <<>>, raised |-> FALSE,
            saved |-> FALSE, warned |-> FALSE, accepted |-> FALSE]

\* the Width and Height entries (lines 169-170) before an export
ExportSizes == {<<800, 600>>, <<4000, 3000>>}

EditExportSize ==
    /\ exp.pc = "idle"
    /\ \E sz \in ExportSizes :
         /\ <<width, height>> # sz
         /\ width' = sz[1]
         /\ height' = sz[2]
    /\ UNCHANGED <<entry_ok, zoom, center_x, center_y, max_iter, power,
                   c_real, c_imag, fractal_type, landscape_type,
                   nightmare_mode, weave_mode, filter_type, invert_colors,
                   num_frames, auto_update, scipy_available>>
    /\ UNCHANGED <<layerVars, uiVars, current_img, gen, exp, eng, col, sw, unitVars>>

\* thread_animate (lines 983-984)
ClickExportAnimation ==
    /\ exp.pc = "idle"
    /\ exp' = [exp EXCEPT !.pc = "begin"]
    /\ UNCHANGED <<paramVars, layerVars, uiVars, current_img, gen>>
    /\ UNCHANGED <<eng, col, sw, unitVars>>

\* lines 997-998: total_pixels = w * h * num_frames; total_pixels > 30_000_000
NeverWarns(w, h, n) == FALSE
NeedsWarning(w, h, n) == w * h * n > LargeAnimation

\* lines 988-998: the parameters are read and the size of the job is tested
ExpBegin ==
    /\ exp.pc = "begin"
    /\ IF ~entry_ok
       THEN \* tk.TclError: the error box, return
            /\ exp' = [exp EXCEPT !.pc = "done"]
            /\ dialogs' = dialogs + 1
       ELSE /\ exp' = [exp EXCEPT
                         !.pc = IF NeedsWarning(width, height, num_frames)
                                THEN "warning" ELSE "path",
                         !.num_frames = num_frames, !.w = width,
                         !.h = height]
            /\ dialogs' = dialogs
    /\ UNCHANGED <<paramVars, layerVars, status_text, progress_running,
                   after_queue, debounce_id, timers, current_img, gen, eng,
                   col, sw, unitVars>>

\* lines 999-1003: messagebox.askyesno("High Memory Warning", msg) answered
ExpWarning ==
    /\ exp.pc = "warning"
    /\ \E yes \in BOOLEAN :
         exp' = [exp EXCEPT !.pc = IF yes THEN "path" ELSE "done",
                            !.warned = TRUE, !.accepted = yes]
    /\ UNCHANGED <<paramVars, layerVars, uiVars, current_img, gen, eng, col,
                   sw, unitVars>>

\* lines 1005-1016: the file dialog is answered, the loop is entered
ExpAskPath ==
    /\ exp.pc = "path"
    /\ \E path \in BOOLEAN :
         IF ~path
         THEN \* no file chosen: return
              /\ exp' = [exp EXCEPT !.pc = "done"]
              /\ progress_running' = progress_running
         ELSE /\ exp' = [exp EXCEPT !.pc = "loop", !.initial_zoom = zoom,
                                    !.i = 0, !.frames = <<>>]
              /\ progress_running' = TRUE
    /\ UNCHANGED <<paramVars, layerVars, status_text, after_queue, dialogs,
                   debounce_id, timers, current_img, gen, eng, col, sw, unitVars>>

\* initial_zoom * (1 + i * 0.2)
FrameZoom(z0, i) == DivT(z0 * (10 + 2 * i), 10)

\* lines 1018-1022: the head of the loop body
ExpSetZoom ==
    /\ exp.pc = "loop"
    /\ exp.i < exp.num_frames
    /\ status_text' = "Generating animation frame"
    /\ zoom' = FrameZoom(exp.initial_zoom, exp.i)
    /\ exp' = [exp EXCEPT !.pc = "render"]
    /\ UNCHANGED <<width, height, entry_ok, center_x, center_y, max_iter,
                   power, c_real, c_imag, fractal_type, landscape_type,
                   nightmare_mode, weave_mode, filter_type, invert_colors,
                   num_frames, auto_update, scipy_available>>
    /\ UNCHANGED <<layerVars, progress_running, after_queue, dialogs,
                   debounce_id, timers, current_img, gen, eng, col, sw, unitVars>>

\* What _apply_filter returns for the numpy array that line 1025 hands it
\* (line 1026; generate_fractal wraps the array with Image.fromarray first,
\* line 431): the array itself, a PIL image, or an exception.
\*   "None": the argument; Blur ... Contour: ndarray has no .filter;
\*   Swirl: Image.fromarray(...), but _swirl_numpy calls img.resize(size,
\*   LANCZOS) on an array of more than MAX_PIXELS pixels.
FilterOnArray(f, w, h) ==
    CASE f = "None"  -> "array"
      [] f = "Swirl" -> IF ~scipy_available /\ h * w > MAX_PIXELS
                        THEN "raise" ELSE "image"
      [] OTHER       -> "raise"

\* lines 1024-1040 for one frame: "raise", or the frame
\* fractal_img.convert(...) (lines 1028, 1035) needs a PIL image
FrameRaises ==
    \/ FilterOnArray(filter_type, exp.w, exp.h) # "image"
    \/ BackgroundFails

FrameRendered ==
    [NoImage EXCEPT
       !.id = <<"frame", exp.i>>, !.w = exp.w, !.h = exp.h, !.zoom = zoom,
       !.mi_map = max_iter, !.mi_col = max_iter,
       !.fractal_type = fractal_type, !.landscape = landscape_type,
       !.nm_col = nightmare_mode, !.filter = filter_type,
       !.nm_filter = nightmare_mode, !.inverted = invert_colors,
       !.pil = TRUE,
       !.bg = background_img.id,
       !.sketch = IF weave_mode THEN sketch_img.id ELSE NoId]

\* lines 1024-1040, and on an exception except (1049-1051) and finally
ExpRender ==
    /\ exp.pc = "render"
    /\ IF FrameRaises
       THEN /\ exp' = [exp EXCEPT !.pc = "done", !.raised = TRUE]
            /\ dialogs' = dialogs + 1
            /\ status_text' = "Ready"
            /\ progress_running' = FALSE
       ELSE /\ exp' = [exp EXCEPT !.pc = "loop", !.i = @ + 1,
                                  !.frames = Append(@, FrameRendered)]
            /\ UNCHANGED <<dialogs, status_text, progress_running>>
    /\ UNCHANGED <<paramVars, layerVars, after_queue, debounce_id, timers,
                   current_img, gen, eng, col, sw, unitVars>>

\* lines 1042-1047 after the loop, then finally; frames[0] of an empty list
\* raises IndexError, and the save itself may fail
ExpSave ==
    /\ exp.pc = "loop"
    /\ exp.i >= exp.num_frames
    /\ zoom' = exp.initial_zoom
    /\ \E ok \in BOOLEAN :
         IF exp.frames = <<>> \/ ~ok
         THEN /\ exp' = [exp EXCEPT !.pc = "done", !.raised = TRUE]
              /\ dialogs' = dialogs + 1
         ELSE /\ exp' = [exp EXCEPT !.pc = "done", !.saved = TRUE]
              /\ dialogs' = dialogs
    /\ status_text' = "Ready"
    /\ progress_running' = FALSE
    /\ UNCHANGED <<width, height, entry_ok, center_x, center_y, max_iter,
                   power, c_real, c_imag, fractal_type, landscape_type,
                   nightmare_mode, weave_mode, filter_type, invert_colors,
                   num_frames, auto_update, scipy_available>>
    /\ UNCHANGED <<layerVars, after_queue, debounce_id, timers, current_img,
                   gen, eng, col, sw, unitVars>>

(***************************************************************************)
(* The view: the Zoom slider, the mouse wheel and the presets.             *)
(***************************************************************************)
\* the Zoom slider (line 171), from 0.1 to 10000.0: positions it is left at
ZoomChoices == {ZS \div 10, ZS, 10000 * ZS}

\* (a preset that writes zoom 0)
PresetZoomZero(p) == 0 * ZS
\* the zoom a preset sets (lines 917, 925, 935, 946)
PresetZoom(p) ==
    CASE p = "spiral"         -> ZS
      [] p = "seahorse"       -> 100 * ZS
      [] p = "cosmic_reef"    -> 250 * ZS
      [] p = "dragons_breath" -> 150 * ZS

Presets == {"spiral", "seahorse", "cosmic_reef", "dragons_breath"}

\* load_preset_* (lines 913-951), values in units of 1/FP; each ends with
\* thread_generate()
LoadPreset ==
    /\ NextRequest <= MaxRequests
    /\ \E p \in Presets :
         /\ zoom' = PresetZoom(p)
         /\ power' = 2
         /\ fractal_type' = CASE p = "spiral"      -> "Julia"
                               [] p = "seahorse"    -> "Mandelbrot"
                               [] p = "cosmic_reef" -> "Burning Ship"
                               [] OTHER             -> "Tricorn"
         /\ c_real' = IF p = "spiral" THEN -80 ELSE c_real
         /\ c_imag' = IF p = "spiral" THEN 16 ELSE c_imag
         /\ center_x' = CASE p = "spiral"      -> 0
                           [] p = "seahorse"    -> -75
                           [] p = "cosmic_reef" -> -177
                           [] OTHER             -> -90
         /\ center_y' = CASE p = "spiral"      -> 0
                           [] p = "seahorse"    -> 10
                           [] p = "cosmic_reef" -> 0
                           [] OTHER             -> -30
         /\ landscape_type' = CASE p = "cosmic_reef"    -> "Space"
                                 [] p = "dragons_breath" -> "Fire"
                                 [] OTHER                -> landscape_type
         /\ max_iter' = CASE p = "cosmic_reef"    -> 200
                           [] p = "dragons_breath" -> 250
                           [] OTHER                -> max_iter
    /\ gen' = ThreadGenerate
    /\ UNCHANGED <<width, height, entry_ok, nightmare_mode, weave_mode,
                   filter_type, invert_colors, num_frames, auto_update,
                   scipy_available>>
    /\ UNCHANGED <<layerVars, uiVars, current_img, exp, eng, col, sw,
                   unitVars>>

\* line 586: max(0.1, min(zoom * zoom_factor, 100000)), the factor 1.25 for
\* a positive event.delta and 1 / 1.25 otherwise
WheelZoom(zm, up) ==
    Max2(ZS \div 10,
         Min2(IF up THEN DivT(zm * 125, 100) ELSE DivT(zm * 100, 125),
              100000 * ZS))

\* lines 589-590: c + d - d / zoom_factor for the mouse at distance d from
\* the centre of the view
WheelCenter(c, d, up) ==
    c + d - (IF up THEN DivT(d * 100, 125) ELSE DivT(d * 125, 100))

\* the mouse over the preview, as fractions of its width and height in halves
MousePositions == {<<1, 1>>, <<0, 0>>}

\* on_mouse_wheel (lines 554-595); before the first render the attribute
\* current_img does not exist and the handler raises at line 555
MouseWheel ==
    /\ current_img.id # NoId
    /\ entry_ok
    /\ debounce_id < MaxTimers
    /\ \E up \in BOOLEAN, m \in MousePositions :
         LET dx == DivT((m[1] - 1) * XRange(zoom), 2)
             dy == DivT((1 - m[2]) * YRange(zoom, width, height), 2)
         IN  /\ zoom' = WheelZoom(zoom, up)
             /\ center_x' = WheelCenter(center_x, dx, up)
             /\ center_y' = WheelCenter(center_y, dy, up)
    /\ timers' = TimersAfterTrigger
    /\ debounce_id' = debounce_id + 1
    /\ UNCHANGED <<width, height, entry_ok, max_iter, power, c_real, c_imag,
                   fractal_type, landscape_type, nightmare_mode, weave_mode,
                   filter_type, invert_colors, num_frames, auto_update,
                   scipy_available>>
    /\ UNCHANGED <<layerVars, status_text, progress_running, after_queue,
                   dialogs, current_img, gen, exp, eng, col, sw, unitVars>>

(***************************************************************************)
(* The filter stage on a PIL image: _apply_filter (lines 761-794) and       *)
(* _swirl_numpy (lines 796-830).  An image is its identity and its size.   *)
(***************************************************************************)
\* a / b <= c / d for a, c >= 0 and b, d > 0, without forming a product
RECURSIVE FracLe(_, _, _, _)
FracLe(a, b, c, d) ==
    LET qa == a \div b
        qc == c \div d
        ra == a % b
        rc == c % d
    IN  IF qa # qc THEN qa < qc
        ELSE IF ra = 0 THEN TRUE
        ELSE IF rc = 0 THEN FALSE
        ELSE FracLe(d, rc, b, ra)

\* k <= d * math.sqrt(MAX_PIXELS / (d * o)), that is k * k * o <= MAX_PIXELS * d
ScaleFits(k, d, o) == k = 0 \/ FracLe(k, d, MAX_PIXELS, k * o)

RECURSIVE ScaleSearch(_, _, _, _)
ScaleSearch(lo, hi, d, o) ==
    IF hi - lo <= 1 THEN lo
    ELSE LET mid == (lo + hi) \div 2
         IN  IF ScaleFits(mid, d, o) THEN ScaleSearch(mid, hi, d, o)
             ELSE ScaleSearch(lo, mid, d, o)

\* (a downscale that keeps the size)
Unscaled(d, o) == d
\* int(d * scale) with scale = math.sqrt(MAX_PIXELS / (h * w)) < 1, for the
\* side d of an image whose other side is o (lines 807-808)
ScaledDim(d, o) == ScaleSearch(0, d, d, o)

FltIdle(w, h) == [pc |-> "idle", w |-> w, h |-> h, cur |-> <<w, h>>,
                  stack |-> <<>>, out |-> [id |-> "", w |-> 0, h |-> 0],
                  raised |-> FALSE]

\* _apply_filter(img): every branch but the call of _swirl_numpy
ApplyFilter ==
    /\ flt.pc = "idle"
    /\ flt' =
         CASE filter_type = "None" ->
                \* no branch taken: return img
                [flt EXCEPT !.pc = "done",
                            !.out = [id |-> "input", w |-> flt.w, h |-> flt.h]]
           [] filter_type = "Swirl" /\ ~scipy_available ->
                \* return self._swirl_numpy(img)
                [flt EXCEPT !.pc = "swirl_numpy"]
           [] OTHER ->
                \* img.filter(...), or Image.fromarray(arr) of the (h, w, 3)
                \* array after map_coordinates: a new image of the same size
                [flt EXCEPT !.pc = "done",
                            !.out = [id |-> "new", w |-> flt.w, h |-> flt.h]]
    /\ UNCHANGED <<appVars, eng, col, sw, cmp, boot>>

\* _swirl_numpy(img) up to its recursive call (lines 801-811), or all of it
\* when the image is small (lines 801-806, 814-830).  Image.resize raises
\* ValueError for a size with a side below 1.
SwirlNumpyCall ==
    /\ flt.pc = "swirl_numpy"
    /\ LET w == flt.cur[1]
           h == flt.cur[2]
           new_h == ScaledDim(h, w)
           new_w == ScaledDim(w, h)
       IN  flt' =
             IF h * w > MAX_PIXELS
             THEN IF new_w < 1 \/ new_h < 1
                  THEN [flt EXCEPT !.pc = "done", !.raised = TRUE]
                  ELSE [flt EXCEPT !.stack = <<flt.cur>> \o @,
                                   !.cur = <<new_w, new_h>>]
             ELSE [flt EXCEPT !.pc = "return",
                              !.out = [id |-> "new", w |-> w, h |-> h]]
    /\ UNCHANGED <<appVars, eng, col, sw, cmp, boot>>

\* a call of _swirl_numpy returns: to line 812, which resizes the result to
\* its own image's (w, h), or to _apply_filter (line 787)
SwirlNumpyReturn ==
    /\ flt.pc = "return"
    /\ flt' = IF flt.stack = <<>>
              THEN [flt EXCEPT !.pc = "done"]
              ELSE [flt EXCEPT !.stack = Tail(@), !.cur = Head(flt.stack),
                               !.out = [id |-> "new", w |-> Head(flt.stack)[1],
                                        h |-> Head(flt.stack)[2]]]
    /\ UNCHANGED <<appVars, eng, col, sw, cmp, boot>>

(***************************************************************************)
(* Start-up and the fractal menu: __init__ (lines 69-130), setup_ui        *)
(* (lines 132-230), the _on_fractal_type_change the class ends up with     *)
(* (lines 367-377; the definition at line 282 is replaced by it), and the  *)
(* handler of the main block (lines 1076-1084).                            *)
(***************************************************************************)
\* the names line 375 can see: the locals of _on_fractal_type_change and
\* the globals of the module (lines 1-65, 68, 1077-1080); no builtin is
\* called main
NamesAtLine375 ==
    {"self", "fractal_type", "is_julia", "new_state", "child",
     "tk", "filedialog", "messagebox", "ttk", "colorchooser", "ctk", "np",
     "Image", "ImageTk", "ImageDraw", "ImageFilter", "ImageOps", "threading",
     "time", "sys", "os", "logging", "RotatingFileHandler", "math",
     "map_coordinates", "SCIPY_AVAILABLE", "APP_NAME", "VERSION", "AUTHOR",
     "COPYRIGHT_YEAR", "CONTACT_EMAIL", "LICENSE_INFO", "setup_logging",
     "FractalDreamWeaver", "logger", "root"}

\* the rows of self.julia_section (lines 181-182): two frames
JuliaRows == 1 .. 2

\* new_state = tk.NORMAL if is_julia else tk.DISABLED
NewState(ft) == IF ft = "Julia" THEN "normal" ELSE "disabled"

BootAt(pc, caller, rows) ==
    [pc |-> pc, caller |-> caller, rows |-> rows, k |-> 1, raised |-> ""]

\* setup_ui up to its last line (lines 132-229): the widgets are built
SetupUi ==
    /\ boot.pc = "setup_ui"
    /\ boot' = [boot EXCEPT !.pc = "type_change",
                            !.rows = [j \in JuliaRows |-> "normal"]]
    /\ UNCHANGED <<appVars, eng, col, sw, cmp, flt>>

\* lines 368-373, one pass of the loop: child.configure(state=new_state) on
\* a row frame; whether customtkinter's frame takes the option is not
\* decided by this file
TypeChangeChild ==
    /\ boot.pc = "type_change"
    /\ boot.k \in JuliaRows
    /\ \E accepted \in BOOLEAN :
         boot' = IF accepted
                 THEN [boot EXCEPT !.rows[boot.k] = NewState(fractal_type),
                                   !.k = @ + 1]
                 ELSE [boot EXCEPT !.pc = "raised", !.raised = "ValueError"]
    /\ UNCHANGED <<appVars, eng, col, sw, cmp, flt>>

\* lines 375-377 and what follows the return: the expression statement
\* "main" is evaluated; then trigger_generation under auto-update; then, in
\* the constructor, lines 123-130 with the first thread_generate()
TypeChangeTail ==
    /\ boot.pc = "type_change"
    /\ boot.k \notin JuliaRows
    /\ IF "main" \in NamesAtLine375
       THEN /\ ParamChanged
            /\ IF boot.caller = "__init__"
               THEN /\ boot' = [boot EXCEPT !.pc = "running"]
                    /\ gen' = ThreadGenerate
               ELSE /\ boot' = [boot EXCEPT !.pc = "returned"]
                    /\ gen' = gen
       ELSE /\ boot' = [boot EXCEPT !.pc = "raised", !.raised = "NameError"]
            /\ UNCHANGED <<timers, debounce_id, gen>>
    /\ UNCHANGED <<paramVars, layerVars, status_text, progress_running,
                   after_queue, dialogs, current_img, exp, eng, col, sw, cmp,
                   flt>>

\* the exception leaves the handler: out of __init__ to the except of the
\* main block (lines 1081-1083: logged, "Fatal Error" box, mainloop never
\* entered), or out of the menu's callback into Tk's error report
ReportException ==
    /\ boot.pc = "raised"
    /\ IF boot.caller = "__init__"
       THEN /\ boot' = [boot EXCEPT !.pc = "fatal"]
            /\ dialogs' = dialogs + 1
       ELSE /\ boot' = [boot EXCEPT !.pc = "callback_error"]
            /\ dialogs' = dialogs
    /\ UNCHANGED <<paramVars, layerVars, status_text, progress_running,
                   after_queue, debounce_id, timers, current_img, gen, exp,
                   eng, col, sw, cmp, flt>>

(***************************************************************************)
(* The specifications.                                                     *)
(***************************************************************************)
\* the parameters __init__ sets (lines 76-97)
DefaultParams ==
    /\ width = 800 /\ height = 600 /\ entry_ok = TRUE
    /\ zoom = ZS /\ center_x = 0 /\ center_y = 0
    /\ max_iter = 256 /\ power = 2
    /\ c_real = -70 /\ c_imag = 27         \* -0.7, 0.27 in units of 1/FP
    /\ fractal_type = "Mandelbrot" /\ landscape_type = "Dream"
    /\ nightmare_mode = FALSE /\ weave_mode = TRUE
    /\ filter_type = "None" /\ auto_update = FALSE /\ invert_colors = FALSE
    /\ num_frames = 20

\* the rest of the state __init__ leaves (lines 99-117), no thread started
NoActivity ==
    /\ sketch_img = [id |-> <<"sketch", 0>>, w |-> 800, h |-> 600,
                     corrupt |-> FALSE]
    /\ background_img = NoLayer
    /\ current_img = NoImage
    /\ status_text = "Ready" /\ progress_running = FALSE
    /\ debounce_id = 0 /\ timers = {} /\ after_queue = <<>> /\ dialogs = 0
    /\ exp = ExpIdle

Constructed == DefaultParams /\ NoActivity /\ scipy_available \in BOOLEAN

EngOff == eng = EngIdle
ColOff == col = [pc |-> "off", iter_map |-> 0, max_iter |-> 0,
                 normalized |-> "", colors |-> <<0, 0, 0>>]
SwOff  == sw = [w |-> 1, h |-> 1, x |-> 0, y |-> 0, hq_done |-> TRUE,
                fb_done |-> TRUE,
                hq |-> [strength |-> 0, num |-> 0, den |-> 1],
                fb |-> [strength |-> 0, num |-> 0, den |-> 1]]

CmpOff == cmp = [pc |-> "off", bg |-> NoPixel, fractal |-> <<0, 0, 0>>,
                 sketch |-> <<0, 0, 0, 0>>, out |-> <<0, 0, 0, 0>>]
FltOff == flt = [pc |-> "off"]
BootOff == boot = [pc |-> "off"]

\* the application after __init__: thread_generate() has started request 1
Init ==
    /\ Constructed
    /\ gen = [r \in Requests |-> IF r = 1 THEN [NoThread EXCEPT !.pc = "begin"]
                                 ELSE NoThread]
    /\ EngOff /\ ColOff /\ SwOff /\ CmpOff /\ FltOff /\ BootOff

Next ==
    \/ ClickGenerate
    \/ EditSize
    \/ LoadBackground
    \/ TimerFire
    \/ \E r \in Requests : GenBegin(r)
    \/ \E r \in Requests : GenLayers(r)
    \/ \E r \in Requests : GenMap(r)
    \/ \E r \in Requests : GenColor(r)
    \/ \E r \in Requests : GenFilter(r)
    \/ \E r \in Requests : GenComposite(r)
    \/ MainLoop

Spec == Init /\ [][Next]_vars

\* one render, with the slider and the checkbox in use while it runs
NextRender ==
    \/ SetMaxIter
    \/ ToggleNightmare
    \/ \E r \in Requests : GenBegin(r)
    \/ \E r \in Requests : GenLayers(r)
    \/ \E r \in Requests : GenMap(r)
    \/ \E r \in Requests : GenColor(r)
    \/ \E r \in Requests : GenFilter(r)
    \/ \E r \in Requests : GenComposite(r)
    \/ MainLoop

SpecRender == Init /\ [][NextRender]_vars

\* the animation export, with the filter menu and the Frames entry in use
InitExport ==
    /\ Constructed
    /\ gen = [r \in Requests |-> NoThread]
    /\ EngOff /\ ColOff /\ SwOff /\ CmpOff /\ FltOff /\ BootOff

NextExport ==
    \/ SetFilter
    \/ SetNumFrames
    \/ EditExportSize
    \/ ClickExportAnimation
    \/ ExpBegin
    \/ ExpWarning
    \/ ExpAskPath
    \/ ExpSetZoom
    \/ ExpRender
    \/ ExpSave

SpecExport == InitExport /\ [][NextExport]_vars

\* _generate_fractal_map on every small grid and parameter choice
EngZooms == {ZS, 2 * ZS, 4 * ZS}
EngCenters == {0, FP \div 2}

InitEngine ==
    /\ entry_ok = TRUE
    /\ width \in 1 .. MaxDim /\ height \in 1 .. MaxDim
    /\ zoom \in EngZooms /\ center_x = 0 /\ center_y \in EngCenters
    /\ max_iter \in 0 .. MaxIterEng /\ power \in 1 .. MaxPower
    /\ c_real = -70 /\ c_imag = 27
    /\ fractal_type \in FractalTypes /\ landscape_type = "Dream"
    /\ nightmare_mode = FALSE /\ weave_mode = TRUE
    /\ filter_type = "None" /\ auto_update = FALSE /\ invert_colors = FALSE
    /\ num_frames = 20
    /\ NoActivity /\ scipy_available = TRUE
    /\ gen = [r \in Requests |-> NoThread]
    /\ eng = EngIdle
    /\ ColOff /\ SwOff /\ CmpOff /\ FltOff /\ BootOff

NextEngine == EngineEnter \/ EngineIterate \/ EngineReturn

SpecEngine == InitEngine /\ [][NextEngine]_vars

\* _generate_fractal_map on 3 x 3 grids whose middle pixel is 0 + 0i or
\* 2 + 2i, Mandelbrot, power 2, with the iteration counts of the slider
PointCenters == {0, 2 * FP}
PointIters == {50, 60}

InitPoints ==
    /\ entry_ok = TRUE
    /\ width = 3 /\ height = 3
    /\ zoom = ZS /\ center_x \in PointCenters /\ center_y = center_x
    /\ max_iter \in PointIters /\ power = 2
    /\ c_real = -70 /\ c_imag = 27
    /\ fractal_type = "Mandelbrot" /\ landscape_type = "Dream"
    /\ nightmare_mode = FALSE /\ weave_mode = TRUE
    /\ filter_type = "None" /\ auto_update = FALSE /\ invert_colors = FALSE
    /\ num_frames = 20
    /\ NoActivity /\ scipy_available = TRUE
    /\ gen = [r \in Requests |-> NoThread]
    /\ eng = EngIdle
    /\ ColOff /\ SwOff /\ CmpOff /\ FltOff /\ BootOff

SpecPoints == InitPoints /\ [][NextEngine]_vars

\* _color_fractal on one pixel, for every palette
ColorMaxIters == (0 .. MaxIterEng) \cup {100}
StopValues    == UNION {{Levels(l)[i] : i \in 1 .. Len(Levels(l))} :
                          l \in Landscapes}
ColorIters    == (0 .. MaxIterEng) \cup StopValues

InitColor ==
    /\ width = 1 /\ height = 1 /\ entry_ok = TRUE
    /\ zoom = ZS /\ center_x = 0 /\ center_y = 0
    /\ max_iter \in ColorMaxIters /\ power = 2
    /\ c_real = -70 /\ c_imag = 27
    /\ fractal_type = "Mandelbrot" /\ landscape_type \in Landscapes
    /\ nightmare_mode \in BOOLEAN /\ weave_mode = TRUE
    /\ filter_type = "None" /\ auto_update = FALSE /\ invert_colors = FALSE
    /\ num_frames = 20
    /\ NoActivity /\ scipy_available = TRUE
    /\ gen = [r \in Requests |-> NoThread]
    /\ EngOff /\ SwOff /\ CmpOff /\ FltOff /\ BootOff
    /\ \E it \in ColorIters :
         col = [pc |-> "idle", iter_map |-> it, max_iter |-> 0,
                normalized |-> "", colors |-> <<0, 0, 0>>]

NextColor == ColorFractal

SpecColor == InitColor /\ [][NextColor]_vars

\* the two Swirl implementations on every pixel of every small image
InitSwirl ==
    /\ width = 800 /\ height = 600 /\ entry_ok = TRUE
    /\ zoom = ZS /\ center_x = 0 /\ center_y = 0
    /\ max_iter = 256 /\ power = 2
    /\ c_real = -70 /\ c_imag = 27
    /\ fractal_type = "Mandelbrot" /\ landscape_type = "Dream"
    /\ nightmare_mode \in BOOLEAN /\ weave_mode = TRUE
    /\ filter_type = "Swirl" /\ auto_update = FALSE /\ invert_colors = FALSE
    /\ num_frames = 20
    /\ NoActivity /\ scipy_available \in BOOLEAN
    /\ gen = [r \in Requests |-> NoThread]
    /\ EngOff /\ ColOff /\ CmpOff /\ FltOff /\ BootOff
    /\ \E w \in 1 .. MaxDim, h \in 1 .. MaxDim :
         \E x \in 0 .. w - 1, y \in 0 .. h - 1 :
            sw = [w |-> w, h |-> h, x |-> x, y |-> y, hq_done |-> FALSE,
                  fb_done |-> FALSE,
                  hq |-> [strength |-> 0, num |-> 0, den |-> 1],
                  fb |-> [strength |-> 0, num |-> 0, den |-> 1]]

NextSwirl == SwirlScipy \/ SwirlNumpy

SpecSwirl == InitSwirl /\ [][NextSwirl]_vars

\* the compositor on one pixel, for layers of every kind
Shades == {0, 100, 255}
Alphas == {0, 128, 255}
FractalPixels == {<<v, 255 - v, 100>> : v \in Shades}
SketchPixels  == {<<255, v, 0, a>> : v \in Shades, a \in Alphas}
BgPixels      == {NoPixel, <<10, 20, 30, 255>>, <<10, 20, 30, 128>>}

InitComposite ==
    /\ width = 1 /\ height = 1 /\ entry_ok = TRUE
    /\ zoom = ZS /\ center_x = 0 /\ center_y = 0
    /\ max_iter = 256 /\ power = 2
    /\ c_real = -70 /\ c_imag = 27
    /\ fractal_type = "Mandelbrot" /\ landscape_type = "Dream"
    /\ nightmare_mode = FALSE /\ weave_mode \in BOOLEAN
    /\ filter_type = "None" /\ auto_update = FALSE /\ invert_colors = FALSE
    /\ num_frames = 20
    /\ NoActivity /\ scipy_available = TRUE
    /\ gen = [r \in Requests |-> NoThread]
    /\ EngOff /\ ColOff /\ SwOff /\ FltOff /\ BootOff
    /\ \E bg \in BgPixels, fr \in FractalPixels, sk \in SketchPixels :
         cmp = [pc |-> "idle", bg |-> bg, fractal |-> fr, sketch |-> sk,
                out |-> <<0, 0, 0, 0>>]

NextComposite == Composite

SpecComposite == InitComposite /\ [][NextComposite]_vars

\* the filter stage on images of several sizes, with and without SciPy
FilterSizes == {<<1, 1>>, <<800, 600>>, <<1600, 1200>>, <<2000, 1500>>,
                <<3, 1000000>>, <<1, 2000001>>,
                <<1415, 1414>>, <<4000, 3000>>}

InitFilter ==
    /\ width = 800 /\ height = 600 /\ entry_ok = TRUE
    /\ zoom = ZS /\ center_x = 0 /\ center_y = 0
    /\ max_iter = 256 /\ power = 2
    /\ c_real = -70 /\ c_imag = 27
    /\ fractal_type = "Mandelbrot" /\ landscape_type = "Dream"
    /\ nightmare_mode = FALSE /\ weave_mode = TRUE
    /\ filter_type \in FilterChoices
    /\ auto_update = FALSE /\ invert_colors = FALSE
    /\ num_frames = 20
    /\ NoActivity /\ scipy_available \in BOOLEAN
    /\ gen = [r \in Requests |-> NoThread]
    /\ EngOff /\ ColOff /\ SwOff /\ CmpOff /\ BootOff
    /\ \E sz \in FilterSizes : flt = FltIdle(sz[1], sz[2])

NextFilter == ApplyFilter \/ SwirlNumpyCall \/ SwirlNumpyReturn

SpecFilter == InitFilter /\ [][NextFilter]_vars

\* the constructor from line 120 on, and the fractal menu's command (line
\* 177) on a window whose Julia rows are in any state
InitStartup ==
    /\ width = 800 /\ height = 600 /\ entry_ok = TRUE
    /\ zoom = ZS /\ center_x = 0 /\ center_y = 0
    /\ max_iter = 256 /\ power = 2
    /\ c_real = -70 /\ c_imag = 27
    /\ landscape_type = "Dream"
    /\ nightmare_mode = FALSE /\ weave_mode = TRUE
    /\ filter_type = "None" /\ invert_colors = FALSE
    /\ num_frames = 20
    /\ NoActivity /\ scipy_available \in BOOLEAN
    /\ gen = [r \in Requests |-> NoThread]
    /\ EngOff /\ ColOff /\ SwOff /\ CmpOff /\ FltOff
    /\ \/ /\ fractal_type = "Mandelbrot" /\ auto_update = FALSE
          /\ boot = BootAt("setup_ui", "__init__",
                           [j \in JuliaRows |-> "none"])
       \/ /\ fractal_type \in FractalTypes /\ auto_update \in BOOLEAN
          /\ \E rows \in [JuliaRows -> {"normal", "disabled"}] :
                boot = BootAt("type_change", "menu", rows)

NextStartup ==
    \/ SetupUi
    \/ TypeChangeChild
    \/ TypeChangeTail
    \/ ReportException

SpecStartup == InitStartup /\ [][NextStartup]_vars

\* the debounce: the events that call trigger_generation, and the timer
NextDebounce ==
    \/ ClearSketch
    \/ LoadBackground
    \/ ToggleAutoUpdate
    \/ SetFilter
    \/ TimerFire

SpecDebounce == InitExport /\ [][NextDebounce]_vars

\* the application with the scheduling the platform gives: a started thread
\* goes on running, the Tk main loop runs the callbacks that are due
Generate(r) ==
    \/ GenBegin(r)
    \/ GenLayers(r)
    \/ GenMap(r)
    \/ GenColor(r)
    \/ GenFilter(r)
    \/ GenComposite(r)

\* the application, SciPy installed, after the entries were edited and
\* before the thread __init__ started has read them
InitFair ==
    /\ \E sz \in SizeChoices : width = sz[1] /\ height = sz[2]
    /\ entry_ok \in BOOLEAN
    /\ zoom = ZS /\ center_x = 0 /\ center_y = 0
    /\ max_iter = 256 /\ power = 2
    /\ c_real = -70 /\ c_imag = 27
    /\ fractal_type = "Mandelbrot" /\ landscape_type = "Dream"
    /\ nightmare_mode = FALSE /\ weave_mode = TRUE
    /\ filter_type = "None" /\ auto_update = FALSE /\ invert_colors = FALSE
    /\ num_frames = 20
    /\ NoActivity /\ scipy_available = TRUE
    /\ gen = [r \in Requests |-> IF r = 1 THEN [NoThread EXCEPT !.pc = "begin"]
                                 ELSE NoThread]
    /\ EngOff /\ ColOff /\ SwOff /\ CmpOff /\ FltOff /\ BootOff

NextFair ==
    \/ ClickGenerate
    \/ LoadBackground
    \/ TimerFire
    \/ \E r \in Requests : Generate(r)
    \/ MainLoop

SpecFair ==
    /\ InitFair
    /\ [][NextFair]_vars
    /\ WF_vars(MainLoop)
    /\ \A r \in Requests : WF_vars(Generate(r))

\* the Frames entry before an export: no frame, two frames
ViewFrames == {0, 2}

\* what the first render publishes (GenMap ... GenComposite for request 1
\* with the parameters of __init__)
FirstImage ==
    [NoImage EXCEPT !.id = <<"final", 1>>, !.req = 1, !.w = 800, !.h = 600,
                    !.zoom = ZS, !.mi_map = 256, !.mi_col = 256,
                    !.fractal_type = "Mandelbrot", !.landscape = "Dream",
                    !.filter = "None", !.pil = TRUE,
                    !.sketch = <<"sketch", 0>>]

\* the view in use: the application after its first render, with the Zoom
\* slider, the filter menu and the Frames entry as the user left them; then
\* the wheel, the presets and one animation export
InitView ==
    /\ width = 800 /\ height = 600 /\ entry_ok = TRUE
    /\ zoom \in ZoomChoices /\ center_x = 0 /\ center_y = 0
    /\ max_iter = 256 /\ power = 2
    /\ c_real = -70 /\ c_imag = 27
    /\ fractal_type = "Mandelbrot" /\ landscape_type = "Dream"
    /\ nightmare_mode = FALSE /\ weave_mode = TRUE
    /\ filter_type \in {"None", "Swirl"}
    /\ auto_update = FALSE /\ invert_colors = FALSE
    /\ num_frames \in ViewFrames
    /\ sketch_img = [id |-> <<"sketch", 0>>, w |-> 800, h |-> 600,
                     corrupt |-> FALSE]
    /\ background_img = NoLayer
    /\ current_img = FirstImage
    /\ status_text = "Ready" /\ progress_running = FALSE
    /\ debounce_id = 0 /\ timers = {} /\ after_queue = <<>> /\ dialogs = 0
    /\ exp = ExpIdle
    /\ scipy_available = TRUE
    /\ gen = [r \in Requests |->
                IF r = 1 THEN [pc |-> "done", w |-> 800, h |-> 600,
                               img |-> FirstImage, log |-> {"info"},
                               raised |-> FALSE]
                ELSE NoThread]
    /\ EngOff /\ ColOff /\ SwOff /\ CmpOff /\ FltOff /\ BootOff

NextView ==
    \/ MouseWheel
    \/ LoadPreset
    \/ ClickExportAnimation
    \/ ExpBegin
    \/ ExpAskPath
    \/ ExpSetZoom
    \/ ExpRender
    \/ ExpSave

SpecView == InitView /\ [][NextView]_vars

(***************************************************************************)
(* The claims.                                                             *)
(***************************************************************************)
Running(r) == gen[r].pc \notin {"none", "done"}

\* thread r takes a step of generate_fractal
GenStep(r) == Running(r) /\ gen'[r] # gen[r]

\* C1 (Spec): single-flight rendering.  When request a was started before
\* request b, both have finished and b has rendered an image, the published
\* image is not the one rendered for a: a's later completion does not
\* replace the image of the newer request.
C1_NewestRequestWins ==
    \A a, b \in Requests :
        (a < b /\ gen[a].pc = "done" /\ gen[b].pc = "done"
               /\ gen[b].img.id # NoId)
        => current_img.req # a

\* C2 (Spec): no step of a render replaces or changes the sketch layer or
\* the background layer: after each step of generate_fractal both are the
\* objects, of the size, they were before it.
C2_RenderLeavesLayers ==
    [][\A r \in Requests :
          GenStep(r) => /\ sketch_img' = sketch_img
                        /\ background_img' = background_img]_vars

\* C3 (SpecColor): for every palette, with nightmare mode off, a pixel whose
\* iteration value equals max_iter (t = 1) gets the palette's last colour.
C3_InteriorGetsFinalStop ==
    (col.pc = "done" /\ ~nightmare_mode /\ max_iter > 0
                     /\ col.iter_map = max_iter)
    => col.colors = Cmaps(landscape_type)[Len(Cmaps(landscape_type))]

\* C4 (SpecEngine): the plane mapper inverts the vertical axis.  For a grid
\* of height >= 2, row 0 has imaginary part y_max, the last row y_min, and
\* the imaginary part strictly decreases with the row.
C4_RowsDescend ==
    (eng.pc \in {"loop", "done"} /\ eng.h >= 2)
    => /\ eng.yy[0] = eng.y_max
       /\ eng.yy[eng.h - 1] = eng.y_min
       /\ \A py1, py2 \in 0 .. eng.h - 1 :
             py1 < py2 => eng.yy[py1] > eng.yy[py2]

\* C5 (SpecSwirl): both Swirl paths use the same angle offset
\* strength * exp(-r / (width / 5)), strength 2.0 in nightmare mode and 1.0
\* otherwise, for every image size, pixel and value of the nightmare flag.
C5_SameWarpGeometry ==
    (sw.hq_done /\ sw.fb_done)
    => /\ OffsetEq(sw.hq, sw.fb)
       /\ sw.fb.strength = (IF nightmare_mode THEN 2 ELSE 1)
       /\ sw.fb.den = 4 * sw.w * sw.w

\* C6 (SpecEngine): every entry of the iteration field is in 0 .. max_iter,
\* when the loop is entered, after each of its iterations and at its end.
C6_IterationRange ==
    eng.pc \in {"loop", "done"}
    => \A p \in DOMAIN eng.iter_map :
          0 <= eng.iter_map[p] /\ eng.iter_map[p] <= eng.max_iter

\* C6's case: a finished field with an escaped and an interior pixel
C6_Witness ==
    /\ eng.pc = "done"
    /\ eng.max_iter > 1
    /\ \E p, q \in DOMAIN eng.iter_map :
          /\ eng.iter_map[p] = eng.max_iter
          /\ eng.iter_map[q] > 0 /\ eng.iter_map[q] < eng.max_iter

\* the render of request r has told its caller of an error: the exception
\* handler ran (it schedules the error box), or the status shows an error
ErrorReported(r) ==
    \/ gen[r].raised
    \/ status_text = "Error: Width and Height must be numbers."

\* C7 (Spec): a render requested with width <= 0 or height <= 0 ends at once
\* with an error reported to the caller, runs no stage and leaves
\* current_img and both layers as they were.
C7_InvalidDimensionsFail ==
    [][\A r \in Requests :
          (GenStep(r) /\ gen[r].pc = "begin" /\ entry_ok
                      /\ (width <= 0 \/ height <= 0))
          => /\ gen'[r].pc = "done"
             /\ gen'[r].img = NoImage
             /\ current_img' = current_img
             /\ sketch_img' = sketch_img
             /\ background_img' = background_img
             /\ ErrorReported(r)']_vars

\* C8 (Spec): a step of a render in which a stage fails, the background's
\* resize or paste in the compositor included, publishes nothing and
\* reports an error; the published image never lacks a layer whose
\* processing failed.
C8_StageFailureAborts ==
    [][\A r \in Requests :
          (GenStep(r) /\ (gen'[r].raised
                          \/ (gen[r].pc = "composite" /\ BackgroundFails)))
          => /\ current_img' = current_img
             /\ ~current_img'.bg_failed
             /\ gen'[r].raised]_vars

\* the export has entered its frame loop
ExportEntered == exp.initial_zoom > 0

\* C9 (SpecExport): an export of N >= 1 frames that entered the loop ends
\* with exactly N frames, frame i a complete render at zoom
\* zoom_0 * (1 + i * 0.2).
C9_AllFramesRendered ==
    (exp.pc = "done" /\ ExportEntered /\ exp.num_frames >= 1)
    => /\ Len(exp.frames) = exp.num_frames
       /\ \A k \in 1 .. Len(exp.frames) :
             /\ exp.frames[k].pil
             /\ exp.frames[k].zoom = FrameZoom(exp.initial_zoom, k - 1)

\* C10 (SpecExport): when an export that entered the frame loop has ended,
\* by success or by an error, zoom is what it was when the export started.
C10_ZoomRestored ==
    (exp.pc = "done" /\ ExportEntered) => zoom = exp.initial_zoom

\* C11 (SpecExport): when width * height * frame_count exceeds 30,000,000
\* the export asks for confirmation before the file dialog, before any frame
\* is rendered and before zoom is changed.  Declining ends the export with
\* zoom, current_img and the layers unchanged, no frame rendered and no
\* error; accepting goes on to the file dialog.  No step renders a frame or
\* changes zoom for such a job unless the confirmation was given.
C11_LargeExportConfirmed ==
    [][/\ (exp.pc = "begin" /\ exp'.pc # "begin" /\ entry_ok
           /\ width * height * num_frames > 30000000)
          => /\ exp'.pc = "warning"
             /\ exp'.frames = <<>> /\ ~exp'.raised
             /\ UNCHANGED <<zoom, current_img, sketch_img, background_img,
                            dialogs>>
       /\ (exp.pc = "warning" /\ exp' # exp)
          => /\ exp'.warned
             /\ exp'.pc = (IF exp'.accepted THEN "path" ELSE "done")
             /\ exp'.frames = <<>> /\ ~exp'.raised /\ ~exp'.saved
             /\ UNCHANGED <<zoom, current_img, sketch_img, background_img,
                            dialogs>>
       /\ (exp.w * exp.h * exp.num_frames > 30000000
           /\ (zoom' # zoom \/ exp'.frames # exp.frames
                            \/ exp'.pc \in {"loop", "render"}))
          => exp.warned /\ exp.accepted]_vars

\* C11's cases: a large export declined, with nothing changed
C11_Witness ==
    /\ exp.pc = "done" /\ exp.warned /\ ~exp.accepted
    /\ exp.w * exp.h * exp.num_frames > 30000000
    /\ zoom = ZS /\ exp.frames = <<>>

\* C12 (SpecComposite): with weave mode on, an output pixel under a sketch
\* pixel of alpha 0 is the opaque fractal pixel, and one under a sketch
\* pixel of alpha 255 is the sketch pixel, whatever the background.
C12_SketchEndpoints ==
    (cmp.pc = "done" /\ weave_mode)
    => /\ cmp.sketch[4] = 0 => cmp.out = ConvertRGBA(cmp.fractal)
       /\ cmp.sketch[4] = 255 => cmp.out = cmp.sketch

\* C12's case: an opaque sketch pixel over a fractal pixel of another colour
C12_Witness ==
    /\ cmp.pc = "done" /\ weave_mode
    /\ cmp.sketch[4] = 255
    /\ cmp.out # ConvertRGBA(cmp.fractal)
    /\ cmp.bg # NoPixel

\* C13 (SpecColor): for every palette and every stop of it, the first and
\* the last included, a pixel whose t = iteration / max_iter equals the stop
\* gets that stop's colour (nightmare mode off).
C13_StopsMapToStopColours ==
    (col.pc = "done" /\ ~nightmare_mode /\ max_iter > 0)
    => \A i \in 1 .. Len(Levels(landscape_type)) :
          col.iter_map * 100 = Levels(landscape_type)[i] * max_iter
          => col.colors = Cmaps(landscape_type)[i]

EngineIterated == eng.pc = "loop" /\ eng'.pc = "loop" /\ eng'.i = eng.i + 1

\* C15 (SpecEngine): an entry of the iteration field changes at most once,
\* from max_iter to the index of the first iteration in which the pixel's
\* |z| exceeds 2: an iteration writes i to exactly the pixels that exceed 2
\* in it and had not before, leaves every other entry alone (the pixels
\* whose capped z exceeds 2 again included), and a pixel that never
\* exceeded 2 has max_iter when the loop ends.
C15_FirstCrossingOnly ==
    [][/\ EngineIterated
          => \A p \in DOMAIN eng.iter_map :
                LET crossed == AbsGreater(IterateZ(eng.fractal_type, eng.power,
                                                   eng.z[p], eng.c[p]),
                                          EscapeRadius)
                IN  IF crossed /\ eng.mask[p]
                    THEN /\ eng.iter_map[p] = eng.max_iter
                         /\ eng'.iter_map[p] = eng.i
                         /\ ~eng'.mask[p]
                    ELSE /\ eng'.iter_map[p] = eng.iter_map[p]
                         /\ eng'.mask[p] = eng.mask[p]
       /\ eng'.pc = "done"
          => \A p \in DOMAIN eng'.iter_map :
                /\ eng'.mask[p] => eng'.iter_map[p] = eng'.max_iter
                /\ ~eng'.mask[p] => eng'.iter_map[p] < eng'.max_iter]_vars

\* C15's case: two iterations after a pixel escaped its capped z has
\* exceeded 2 again, and another pixel has not escaped
C15_Witness ==
    /\ eng.pc = "loop"
    /\ \E p, q \in DOMAIN eng.iter_map :
          /\ eng.iter_map[p] + 2 <= eng.i
          /\ eng.z[p] = Capped(eng.z[p])
          /\ eng.mask[q]

\* C18 (SpecPoints): Mandelbrot, power 2, max_iter >= 50: the pixel at
\* 0 + 0i has max_iter, the pixel at 2 + 2i an escape iteration below 2.
C18_KnownPoints ==
    (eng.pc = "done" /\ eng.fractal_type = "Mandelbrot" /\ eng.power = 2
                     /\ eng.max_iter >= 50)
    => \A p \in DOMAIN eng.iter_map :
          /\ eng.c[p] = <<0, 0>> => eng.iter_map[p] = eng.max_iter
          /\ eng.c[p] = <<2 * FP, 2 * FP>> => eng.iter_map[p] < 2

\* C18's case: a finished field that holds the pixel 2 + 2i
C18_Witness ==
    /\ eng.pc = "done" /\ eng.max_iter >= 50
    /\ \E p \in DOMAIN eng.iter_map :
          eng.c[p] = <<2 * FP, 2 * FP>> /\ eng.iter_map[p] = 0

\* C19 (SpecEngine): after every iteration of the loop, for every family
\* and power >= 1, no pixel's |z| exceeds 2.
C19_MagnitudeCapped ==
    (eng.pc \in {"loop", "done"} /\ eng.i >= 1)
    => \A p \in DOMAIN eng.z : ~AbsGreater(eng.z[p], EscapeRadius)

\* C19's case: after two iterations, an escaped pixel held at the cap
\* beside a pixel still iterating away from 0
C19_Witness ==
    /\ eng.pc = "loop" /\ eng.i >= 2
    /\ \E p, q \in DOMAIN eng.z :
          /\ ~eng.mask[p] /\ eng.z[p] = Capped(eng.z[p])
          /\ eng.mask[q] /\ eng.z[q] # <<0, 0>>

\* C16 (SpecRender): the stages of one render use the same parameter
\* values: the max_iter that normalises the iteration field is the max_iter
\* that bounded it, so that no t exceeds 1, and the filter sees the
\* nightmare flag the palette mapper saw.
C16_OneSnapshotPerRender ==
    \A r \in Requests :
        /\ gen[r].img.pil
           => /\ gen[r].img.mi_col = gen[r].img.mi_map
              /\ gen[r].img.mi_map <= gen[r].img.mi_col
        /\ gen[r].img.filter # ""
           => gen[r].img.nm_filter = gen[r].img.nm_col

\* C17 (SpecFilter): for every filter name and every image of w x h pixels,
\* w, h >= 1, the filter stage ends by returning an image of w x h pixels,
\* the fallback swirl of an image of more than 2,000,000 pixels included;
\* for "None" it returns the image it was given.
C17_FilterKeepsSize ==
    flt.pc = "done"
    => /\ ~flt.raised
       /\ flt.out.w = flt.w /\ flt.out.h = flt.h
       /\ filter_type = "None" => flt.out.id = "input"

\* C20 (SpecStartup): the constructor runs setup_ui and
\* _on_fractal_type_change to completion without an exception and then
\* starts the initial generation: once it has left them it is running, with
\* request 1 started and nothing raised.
C20_StartupReachesRunning ==
    (boot.caller = "__init__" /\ boot.pc \notin {"setup_ui", "type_change"})
    => /\ boot.pc = "running"
       /\ boot.raised = ""
       /\ gen[1].pc = "begin"


\* C21: at every moment at most one generation timer is scheduled and not
\* yet fired; a call of trigger_generation leaves exactly its own timer
\* scheduled, so of k calls made before a timer fires only the last one's
\* timer is left, and when it fires one thread starts and no timer remains.
C21_OneTimerOneThread ==
    /\ [](Cardinality(timers) <= 1)
    /\ [][/\ (debounce_id' # debounce_id => timers' = {debounce_id'})
          /\ (timers' # timers /\ gen' # gen
                => /\ timers = {debounce_id}
                   /\ timers' = {}
                   /\ Cardinality(Started') = Cardinality(Started) + 1)]_vars

\* two calls and one thread: the second call came before the first timer fired
C21_Witness ==
    /\ debounce_id >= 2
    /\ timers = {}
    /\ Cardinality(Started) = 1


\* C22: every exit of generate_fractal (dimensions that are no numbers or
\* not positive, success, an exception in a stage) schedules finish_ui, and
\* under fair scheduling, once the last generation has ended, the status is
\* "Ready" and the progress bar is stopped from some moment on.
C22_UiResetAfterGeneration ==
    /\ [][\A r \in Requests :
            (GenStep(r) /\ gen'[r].pc = "done")
            => /\ after_queue' # <<>>
               /\ after_queue'[Len(after_queue')] = "finish_ui"
               /\ Len(after_queue') > Len(after_queue)]_vars
    /\ (<>[](\A r \in Requests : ~Running(r)))
         => <>[](status_text = "Ready" /\ ~progress_running)

\* two generations have ended, one by an exception, and the UI is reset
C22_Witness ==
    /\ \A r \in Requests : gen[r].pc = "done"
    /\ \E r \in Requests : gen[r].raised
    /\ current_img.id # NoId
    /\ after_queue = <<>>
    /\ dialogs > 0
    /\ status_text = "Ready" /\ ~progress_running


\* C23: zoom is positive in every reachable state: from 1.0, after mouse
\* wheel events (clamped to 0.1 .. 100000), preset loads and an animation
\* export with its per-frame zoom values.
C23_ZoomPositive == zoom > 0

\* the wheel has turned while the export was in its loop at a later frame
C23_Witness ==
    /\ exp.pc = "render" /\ exp.i >= 1
    /\ debounce_id >= 1
    /\ zoom = ZS \div 10


\* C24: every pixel of a published composite has alpha 255, also where weave
\* mode pastes a sketch stroke of partial alpha (the default brush has 128).
C24_PublishedOpaque ==
    cmp.pc = "done" => cmp.out[4] = 255

C26_RecursionDepthOne ==
    /\ Len(flt.stack) <= 1
    /\ flt.stack # <<>> => flt.cur[1] * flt.cur[2] <= MAX_PIXELS

\* the recursive call has run its non-recursive branch and is about to return
C26_Witness ==
    /\ flt.pc = "return"
    /\ Len(flt.stack) = 1
    /\ flt.stack[1][1] * flt.stack[1][2] > MAX_PIXELS
    /\ flt.out.w = flt.cur[1] /\ flt.out.h = flt.cur[2]


\* C27: the status indicator is truthful under concurrent renders: whenever
\* the status is "Ready", the progress bar is stopped and no UI callback is
\* waiting to run, no generate_fractal thread is between its first and its
\* last statement.
C27_ReadyMeansIdle ==
    (status_text = "Ready" /\ ~progress_running /\ after_queue = <<>>)
    => \A r \in Requests : gen[r].pc \in {"none", "begin", "done"}

====
